---- MODULE Spec2Model ----
(***************************************************************************)
(* A model of the k-d tree of src/kdtree/kdtree.go: the bucketed-leaf      *)
(* tree (insert, delete, makesplit, ninther) and the concurrent range      *)
(* search (one goroutine per visited node, unbuffered channels, fan-in by  *)
(* select); and of the other structures of the repository: the red-black   *)
(* tree, the heap, the linked list, the hash table and the merge sort.     *)
(*                                                                         *)
(* Pointers are indices into the arena `nodes` (nil is 0, the root is 1).  *)
(* Go slices are 0-based: Index(s, i) reads s[i].  An index out of range   *)
(* is a run-time panic, which ends the program (err = PANIC).              *)
(***************************************************************************)
EXTENDS Integers, Sequences, FiniteSets, TLC

VARIABLES
    k,          \* KDTree.k
    nodes,      \* the arena of node structs; KDTree.root is nodes[root]
    call,       \* the public call made last: op, arg, err, and the arena before it
    inserted,   \* history: how often Insert(p) returned no error, for each point p
    callerpc,   \* where the caller of Search is: "idle" or "range" (line 53)
    found,      \* Search's result slice
    chans,      \* the channels of the running query, one per node: chans[n] is node n's output
    gor,        \* the search goroutines of the running query, one per node
    rbtree,     \* the red-black tree: its nodes, its root, the call made last
    heap,       \* the heap: value, label, size, capacity, and the call made last
    list,       \* the linked list: its nodes, Head, length, and the call made last
    sorted,     \* the merge sort: the call made last, its input and its result
    table       \* the hash table: its array of linked lists, and the call made last

vars == <<k, nodes, call, inserted, callerpc, found, chans, gor,
          rbtree, heap, list, sorted, table>>

\* the k-d tree and its query
kdvars == <<k, nodes, call, inserted, callerpc, found, chans, gor>>
\* the other structures
others == <<rbtree, heap, list, sorted, table>>

----------------------------------------------------------------------------
(* Bounds of the model *)

\* leaf capacity given to the root (64 in NewKDTree, scaled down so that leaves fill)
Cap == 2
\* coordinates are 0..MaxCoord
MaxCoord == 1
\* the arena never grows beyond MaxNodes nodes (a split allocates two)
MaxNodes == 5

\* the dimensionality the driver builds its first tree with
K == 2

\* the red-black tree takes the keys 0..MaxKey, in at most MaxRbInserts calls
MaxKey == 3
MaxRbInserts == 7

\* a heap is built from at most MaxHeap values out of 0..MaxValue
MaxHeap == 7
MaxValue == 1

\* the linked list allocates at most MaxListNodes nodes, with values 0..MaxListValue
MaxListNodes == 4
MaxListValue == 1

\* MergeSort is called with at most MaxSortLen values out of 0..MaxSortValue
MaxSortLen == 5
MaxSortValue == 2

\* the hash table has HtSize lists (2^14 in the tests) and takes at most
\* MaxHtInserts Inserts, of keys of at most MaxKeyLen runes out of 1..MaxRune
MaxLeaf == 10
HtSize == 2
MaxHtInserts == 3
MaxKeyLen == 2
MaxRune == 2

Coords == 0..MaxCoord
PointsOf(a) == [1..a -> Coords]
Points == PointsOf(K)
\* points of every arity a caller may pass: too short, right, and too long (a
\* point of the right arity with one more coordinate, 0)
\* points of one coordinate, of three values, for the leaves that ninther samples
SplitPoints == [1..1 -> {0, 1, 2}]
AnyPoints == PointsOf(K - 1) \cup PointsOf(K) \cup {Append(p, 0) : p \in PointsOf(K)}
\* query boxes: every box of the right length 2k whose lower bounds are
\* coordinates and whose upper bounds are coordinates or lie one above them (so
\* that a box can hold a split value strictly inside; lower bounds above upper
\* bounds included), and boxes one shorter and one longer (Search reads only
\* the length of those)
BoxCoords == 0..(MaxCoord + 1)
Boxes == {b \in [1..(2 * K) -> BoxCoords] : \A i \in 1..K : b[i] \in Coords}
\* the points of the scenario of five inserts into a tree of capacity 4, and
\* the boxes it is searched with: [0,2,0,2], and [0,0,2,2], which is the square
\* from (0,0) to (2,2) in the layout [min_0, min_1, max_0, max_1]
ScenarioPoints == {<<i, i>> : i \in 0..4}
ScenarioBoxes == {<<0, 2, 0, 2>>, <<0, 0, 2, 2>>}
AnyBoxes == Boxes \cup {[i \in 1..n |-> c] : n \in {2 * K - 1, 2 * K + 1}, c \in {0, MaxCoord}}

----------------------------------------------------------------------------
(* Values *)

nil == 0
root == 1

Nil == "nil"
POINT_NOT_FOUND == "point not found"
EMPTYNODE == "node is empty"
DIMENSION_ERROR == "dimension mismatch"
PANIC == "panic: index out of range"

Index(s, i) == s[i + 1]
InRange(s, i) == i >= 0 /\ i < Len(s)

Min(a, b) == IF a < b THEN a ELSE b
Max(a, b) == IF a > b THEN a ELSE b

\* a node built without its cap field, which is then 0
NewNodeNoCap(d, c) ==
    [dim |-> d, split |-> 0, left |-> nil, right |-> nil, points |-> <<>>, cap |-> 0]

NewNode(d, c) ==
    [dim |-> d, split |-> 0, left |-> nil, right |-> nil, points |-> <<>>, cap |-> c]

----------------------------------------------------------------------------
(* median3, ninther *)

\* median3 with b for the larger of a and b in its second half
median3Inner(a, b, c) == Max(Min(a, b), Min(b, c))

median3(a, b, c) == Max(Min(a, b), Min(Max(a, b), c))

\* the midpoint of the first and the last value for the median of medians
nintherMid(pts) == (Index(pts, 0) + Index(pts, Len(pts) - 1) + 1) \div 2

ninther(pts) ==
    LET n == Len(pts)
        th == n \div 9
    IN  median3(median3(Index(pts, 0), Index(pts, 1 * th), Index(pts, 2 * th)),
                median3(Index(pts, 3 * th), Index(pts, 4 * th), Index(pts, 5 * th)),
                median3(Index(pts, 6 * th), Index(pts, 7 * th), Index(pts, 8 * th)))

----------------------------------------------------------------------------
(* point.equals: "true", "false", or "panic" when pt2 is shorter than pt and *)
(* agrees with it as far as it goes                                          *)

equals(pt, pt2) ==
    LET bad == {i \in 0..(Len(pt) - 1) : ~InRange(pt2, i) \/ Index(pt, i) # Index(pt2, i)}
    IN  IF bad = {} THEN (IF Len(pt) = Len(pt2) THEN "true" ELSE "false")
        ELSE LET i == CHOOSE j \in bad : \A j2 \in bad : j <= j2
             IN  IF ~InRange(pt2, i) THEN "panic" ELSE "false"

----------------------------------------------------------------------------
(* node.insert, node.makesplit: each returns the arena after the call and   *)
(* the error returned                                                       *)

RECURSIVE insert(_, _, _), makesplit(_, _, _), redistribute(_, _, _, _, _)

\* the comparison of lines 112, 128 and 175 with <= for <
routeLe(ns, n, dim, pt) ==
    IF Index(pt, dim) <= ns[n].split THEN ns[n].left ELSE ns[n].right

\* the child pt is routed to at the internal node n
route(ns, n, dim, pt) ==
    IF Index(pt, dim) < ns[n].split THEN ns[n].left ELSE ns[n].right

\* insert with > for == in line 117: a full leaf takes one more point
insertOver(ns, n, pt) ==
    IF ns[n].left # nil
    THEN IF ~InRange(pt, ns[n].dim)
         THEN [nodes |-> ns, err |-> PANIC]
         ELSE LET r == insert(ns, route(ns, n, ns[n].dim, pt), pt)
              IN  [nodes |-> r.nodes, err |-> IF r.err = PANIC THEN PANIC ELSE Nil]
    ELSE IF Len(ns[n].points) > ns[n].cap
         THEN makesplit(ns, n, ns[n].dim)
         ELSE [nodes |-> [ns EXCEPT ![n].points = Append(@, pt)], err |-> Nil]

insert(ns, n, pt) ==
    IF ns[n].left # nil
    THEN IF ~InRange(pt, ns[n].dim)
         THEN [nodes |-> ns, err |-> PANIC]
         ELSE LET r == insert(ns, route(ns, n, ns[n].dim, pt), pt)
              \* the error of the recursive call is not assigned to err
              IN  [nodes |-> r.nodes, err |-> IF r.err = PANIC THEN PANIC ELSE Nil]
    ELSE IF Len(ns[n].points) = ns[n].cap
         THEN makesplit(ns, n, ns[n].dim)
         ELSE [nodes |-> [ns EXCEPT ![n].points = Append(@, pt)], err |-> Nil]

\* the loop of line 174 stopping one point early: the last point is in no child
RECURSIVE redistributeDropLast(_, _, _, _, _)
redistributeDropLast(ns, n, dim, pts, i) ==
    IF i >= Len(pts) THEN ns
    ELSE redistributeDropLast(insert(ns, route(ns, n, dim, pts[i]), pts[i]).nodes,
                              n, dim, pts, i + 1)

\* lines 174-180: every point of the leaf is inserted into one of the two children
redistribute(ns, n, dim, pts, i) ==
    IF i > Len(pts) THEN ns
    ELSE redistribute(insert(ns, route(ns, n, dim, pts[i]), pts[i]).nodes, n, dim, pts, i + 1)

\* makesplit without line 181: the node keeps its points
makesplitKeepPoints(ns, n, dim) ==
    LET pts == ns[n].points IN
    IF Len(pts) = 0 THEN [nodes |-> ns, err |-> EMPTYNODE]
    ELSE IF \E i \in 1..Len(pts) : ~InRange(pts[i], dim)
    THEN [nodes |-> ns, err |-> PANIC]
    ELSE LET vals == [i \in 1..Len(pts) |-> Index(pts[i], dim)]
             child == NewNode((dim + 1) % Len(pts[1]), ns[n].cap)
             ns1 == [ns EXCEPT ![n].split = ninther(vals),
                               ![n].left = Len(ns) + 1,
                               ![n].right = Len(ns) + 2] \o <<child, child>>
         IN  [nodes |-> redistribute(ns1, n, dim, pts, 1), err |-> Nil]

makesplit(ns, n, dim) ==
    LET pts == ns[n].points IN
    IF Len(pts) = 0 THEN [nodes |-> ns, err |-> EMPTYNODE]
    ELSE IF \E i \in 1..Len(pts) : ~InRange(pts[i], dim)
    THEN [nodes |-> ns, err |-> PANIC]
    ELSE LET vals == [i \in 1..Len(pts) |-> Index(pts[i], dim)]
             child == NewNode((dim + 1) % Len(pts[1]), ns[n].cap)
             ns1 == [ns EXCEPT ![n].split = ninther(vals),
                               ![n].left = Len(ns) + 1,
                               ![n].right = Len(ns) + 2] \o <<child, child>>
             ns2 == redistribute(ns1, n, dim, pts, 1)
         IN  [nodes |-> [ns2 EXCEPT ![n].points = <<>>], err |-> Nil]

----------------------------------------------------------------------------
(* node.delete *)

\* s without its element at the Go index i: append(s[:i], s[i+1:]...)
RemoveAt(s, i) == [j \in 1..(Len(s) - 1) |-> IF j <= i THEN s[j] ELSE s[j + 1]]

\* deleteLeaf with the removal outside the `found` test: a leaf without a match
\* loses its last point
deleteLeafUnguarded(ns, n, pt) ==
    LET pts == ns[n].points
        hit == {i \in 0..(Len(pts) - 1) : equals(Index(pts, i), pt) = "true"}
    IN  IF hit = {}
        THEN [nodes |-> [ns EXCEPT ![n].points = SubSeq(pts, 1, Len(pts) - 1)],
              err |-> POINT_NOT_FOUND]
        ELSE LET i == CHOOSE j \in hit : \A j2 \in hit : j <= j2
             IN  [nodes |-> [ns EXCEPT ![n].points = RemoveAt(pts, i)], err |-> Nil]

\* deleteLeaf without the `break`: the leaf loses every point equal to pt
deleteLeafAll(ns, n, pt) ==
    LET pts == ns[n].points
        keep == SelectSeq(pts, LAMBDA c : equals(c, pt) # "true")
    IN  IF Len(keep) = Len(pts) THEN [nodes |-> ns, err |-> POINT_NOT_FOUND]
        ELSE [nodes |-> [ns EXCEPT ![n].points = keep], err |-> Nil]

\* deleteLeaf removing by a swap with the last point: the order of the rest is
\* not kept
deleteLeafSwap(ns, n, pt) ==
    LET pts == ns[n].points
        hit == {i \in 0..(Len(pts) - 1) : equals(Index(pts, i), pt) = "true"}
    IN  IF hit = {} THEN [nodes |-> ns, err |-> POINT_NOT_FOUND]
        ELSE LET i == CHOOSE j \in hit : \A j2 \in hit : j <= j2
                 moved == [pts EXCEPT ![i + 1] = pts[Len(pts)]]
             IN  [nodes |-> [ns EXCEPT ![n].points = SubSeq(moved, 1, Len(pts) - 1)],
                  err |-> Nil]

\* lines 134-144: the leaf loses the first point equal to pt
deleteLeaf(ns, n, pt) ==
    LET pts == ns[n].points
        hit == {i \in 0..(Len(pts) - 1) : equals(Index(pts, i), pt) # "false"}
    IN  IF hit = {} THEN [nodes |-> ns, err |-> POINT_NOT_FOUND]
        ELSE LET i == CHOOSE j \in hit : \A j2 \in hit : j <= j2
             IN  IF equals(Index(pts, i), pt) = "panic"
                 THEN [nodes |-> ns, err |-> PANIC]
                 ELSE [nodes |-> [ns EXCEPT ![n].points = RemoveAt(pts, i)],
                       err |-> Nil]

RECURSIVE delete(_, _, _)
delete(ns, n, pt) ==
    IF ns[n].left # nil
    THEN IF ~InRange(pt, ns[n].dim)
         THEN [nodes |-> ns, err |-> PANIC]
         ELSE LET r == delete(ns, route(ns, n, ns[n].dim, pt), pt)
              \* the error of the recursive call is not assigned to err
              IN  [nodes |-> r.nodes, err |-> IF r.err = PANIC THEN PANIC ELSE Nil]
    ELSE deleteLeaf(ns, n, pt)

----------------------------------------------------------------------------
(* What the tree holds *)

\* how many copies of p the leaves below n hold
RECURSIVE Stored(_, _, _)
Stored(ns, n, p) ==
    IF ns[n].left # nil
    THEN Stored(ns, ns[n].left, p) + Stored(ns, ns[n].right, p)
    ELSE Cardinality({i \in 1..Len(ns[n].points) : ns[n].points[i] = p})

\* how many points the leaves below n hold
RECURSIVE Size(_, _)
Size(ns, n) ==
    IF ns[n].left # nil
    THEN Size(ns, ns[n].left) + Size(ns, ns[n].right)
    ELSE Len(ns[n].points)

Occurrences(s, p) == Cardinality({i \in 1..Len(s) : s[i] = p})

\* the leaf the descent of lines 127-132 ends in for pt
RECURSIVE LeafOf(_, _, _)
LeafOf(ns, n, pt) ==
    IF ns[n].left # nil THEN LeafOf(ns, route(ns, n, ns[n].dim, pt), pt) ELSE n

\* the points the leaves below n hold
RECURSIVE PointsBelow(_, _)
PointsBelow(ns, n) ==
    IF ns[n].left # nil
    THEN PointsBelow(ns, ns[n].left) \cup PointsBelow(ns, ns[n].right)
    ELSE {ns[n].points[i] : i \in 1..Len(ns[n].points)}

\* the depth of node n below node m (0 for m itself), -1 when n is not below m
RECURSIVE DepthBelow(_, _, _)
DepthBelow(ns, m, n) ==
    IF m = n THEN 0
    ELSE IF ns[m].left = nil THEN 0 - 1
    ELSE LET l == DepthBelow(ns, ns[m].left, n)
             r == DepthBelow(ns, ns[m].right, n)
         IN  IF l >= 0 THEN l + 1 ELSE IF r >= 0 THEN r + 1 ELSE 0 - 1

\* the nodes of the subtree of n, n included
RECURSIVE Subtree(_, _)
Subtree(ns, n) ==
    IF ns[n].left # nil
    THEN {n} \cup Subtree(ns, ns[n].left) \cup Subtree(ns, ns[n].right)
    ELSE {n}

\* the containment test reading the box as [min_0, max_0, min_1, max_1, ...]
WithinInterleaved(pt, bounds) ==
    \A i \in 0..(Len(pt) - 1) :
        ~(Index(pt, i) < Index(bounds, 2 * i) \/ Index(pt, i) > Index(bounds, 2 * i + 1))

\* the containment test with && for || in line 97: a point is outside only if
\* a coordinate is both under the lower and over the upper bound
WithinAnd(pt, bounds) ==
    \A i \in 0..(Len(pt) - 1) :
        ~(Index(pt, i) < Index(bounds, i) /\ Index(pt, i) > Index(bounds, i + Len(pt)))

\* the containment test of lines 95-101, for a point and a box of the right arity
Within(pt, bounds) ==
    \A i \in 0..(Len(pt) - 1) :
        ~(Index(pt, i) < Index(bounds, i) \/ Index(pt, i) > Index(bounds, i + Len(pt)))

\* how many copies of p node.search sends for the subtree of n, read off lines
\* 60-105 without the goroutines: the searched children's points at an internal
\* node, the points inside the box at a leaf
RECURSIVE Sends(_, _, _, _)
Sends(ns, n, bounds, p) ==
    IF ns[n].left # nil
    THEN (IF ns[n].split > Index(bounds, ns[n].dim)
          THEN Sends(ns, ns[n].left, bounds, p) ELSE 0)
         + (IF ns[n].split < Index(bounds, ns[n].dim + Len(bounds) \div 2)
            THEN Sends(ns, ns[n].right, bounds, p) ELSE 0)
    ELSE IF Within(p, bounds) THEN Occurrences(ns[n].points, p) ELSE 0

----------------------------------------------------------------------------
(* The red-black tree of package rbtree.  Its nodes live in the arena       *)
(* rbtree.nodes; every sentinel is a node of its own, with no pointer set.  *)
(* A step that reads a field through a nil pointer panics: err = NILDEREF.  *)

red == 0
black == 1
NILDEREF == "panic: nil pointer dereference"

Keys == 0..MaxKey

\* &Node{black, nil, nil, nil, 0}
Sentinel == [color |-> black, left |-> nil, right |-> nil, p |-> nil, key |-> 0]

\* the tree the tests start from: RedBlackTree{&Node{black, nil, nil, nil, 0}}
NewRedBlackTree == [nodes |-> <<Sentinel>>, root |-> 1, err |-> Nil, op |-> "new"]

isSentinel(ns, n) == ns[n].left = nil /\ ns[n].right = nil /\ ns[n].p = nil

\* the result of a step that dereferences nil
Panicked(t) == [t EXCEPT !.err = NILDEREF]

\* lines 80-98; t holds the arena and the tree's root, which the caller sets to
\* the returned pointer when that is not nil
rotateLeft(t, n) ==
    IF n = nil \/ t.nodes[n].right = nil THEN Panicked(t)
    ELSE LET y == t.nodes[n].right
             ns1 == [t.nodes EXCEPT ![n].right = t.nodes[y].left]
         IN  IF ns1[y].left = nil \/ ns1[n].p = nil THEN Panicked(t)
             ELSE LET ns2 == IF ~isSentinel(ns1, ns1[y].left)
                             THEN [ns1 EXCEPT ![ns1[y].left].p = n] ELSE ns1
                      ns3 == [ns2 EXCEPT ![y].p = ns2[n].p]
                      par == ns3[n].p
                      ns4 == IF isSentinel(ns3, par) THEN ns3
                             ELSE IF ns3[par].left = n
                                  THEN [ns3 EXCEPT ![par].left = y]
                                  ELSE [ns3 EXCEPT ![par].right = y]
                      ns5 == [ns4 EXCEPT ![y].left = n]
                  IN  [t EXCEPT !.nodes = [ns5 EXCEPT ![n].p = y],
                                !.root = IF isSentinel(ns3, par) THEN y ELSE @]

\* lines 100-118
rotateRight(t, n) ==
    IF n = nil \/ t.nodes[n].left = nil THEN Panicked(t)
    ELSE LET y == t.nodes[n].left
             ns1 == [t.nodes EXCEPT ![n].left = t.nodes[y].right]
         IN  IF ns1[y].right = nil \/ ns1[n].p = nil THEN Panicked(t)
             ELSE LET ns2 == IF ~isSentinel(ns1, ns1[y].right)
                             THEN [ns1 EXCEPT ![ns1[y].right].p = n] ELSE ns1
                      ns3 == [ns2 EXCEPT ![y].p = ns2[n].p]
                      par == ns3[n].p
                      ns4 == IF isSentinel(ns3, par) THEN ns3
                             ELSE IF ns3[par].right = n
                                  THEN [ns3 EXCEPT ![par].right = y]
                                  ELSE [ns3 EXCEPT ![par].left = y]
                      ns5 == [ns4 EXCEPT ![y].right = n]
                  IN  [t EXCEPT !.nodes = [ns5 EXCEPT ![n].p = y],
                                !.root = IF isSentinel(ns3, par) THEN y ELSE @]

\* the first case without line 195 (253): the grandparent keeps its color
recolorKeepGrandparent(ns, z, y) ==
    LET ns1 == [ns EXCEPT ![ns[z].p].color = black]
    IN  [ns1 EXCEPT ![y].color = black]

\* lines 193-195 (251-253), the first case: z's parent and uncle y become
\* black, z's grandparent red
recolor(ns, z, y) ==
    LET ns1 == [ns EXCEPT ![ns[z].p].color = black]
        ns2 == [ns1 EXCEPT ![y].color = black]
    IN  [ns2 EXCEPT ![ns2[ns2[z].p].p].color = red]

\* lines 240-241 (262-263), the third case: z's parent becomes black, z's
\* grandparent red
swapColors(ns, z) ==
    LET ns1 == [ns EXCEPT ![ns[z].p].color = black]
    IN  [ns1 EXCEPT ![ns1[ns1[z].p].p].color = red]

\* lines 176-270: the loop of rebalanceInsert from the active node z on
RECURSIVE rebalanceLoop(_, _)
rebalanceLoop(t, z) ==
    LET ns == t.nodes IN
    IF z = nil \/ ns[z].p = nil THEN Panicked(t)
    ELSE IF ns[ns[z].p].color # red THEN t
    ELSE IF ns[ns[z].p].p = nil THEN Panicked(t)
    ELSE LET zp == ns[z].p
             zpp == ns[zp].p
         IN  IF zp = ns[zpp].left
             THEN LET y == ns[zpp].right IN
                  IF y = nil THEN Panicked(t)
                  ELSE IF ns[y].color = red
                  THEN rebalanceLoop([t EXCEPT !.nodes = recolor(ns, z, y)], zpp)
                  ELSE IF z = ns[zp].right
                  THEN LET t1 == rotateLeft(t, zp)
                       IN  IF t1.err # Nil THEN t1 ELSE rebalanceLoop(t1, zp)
                  ELSE LET t1 == rotateRight([t EXCEPT !.nodes = swapColors(ns, z)], zpp)
                       IN  IF t1.err # Nil THEN t1 ELSE rebalanceLoop(t1, z)
             ELSE LET y == ns[zpp].left IN
                  IF y = nil THEN Panicked(t)
                  ELSE IF ns[y].color = red
                  THEN rebalanceLoop([t EXCEPT !.nodes = recolor(ns, z, y)], zpp)
                  ELSE IF z = ns[zp].left
                  THEN LET t1 == rotateRight(t, zp)
                       IN  IF t1.err # Nil THEN t1 ELSE rebalanceLoop(t1, zp)
                  ELSE LET t1 == rotateLeft([t EXCEPT !.nodes = swapColors(ns, z)], zpp)
                       IN  IF t1.err # Nil THEN t1 ELSE rebalanceLoop(t1, z)

\* lines 166-272
rebalanceInsert(t, z) ==
    LET t1 == rebalanceLoop(t, z)
    IN  IF t1.err # Nil THEN t1
        ELSE IF t1.root = nil THEN Panicked(t1)
        ELSE [t1 EXCEPT !.nodes[t1.root].color = black]

\* lines 130-137: the node below which key is inserted, from childNode on;
\* nil stands for a nil pointer followed
RECURSIVE descend(_, _, _, _)
descend(ns, parentNode, childNode, key) ==
    IF childNode = nil THEN nil
    ELSE IF isSentinel(ns, childNode) THEN parentNode
    ELSE descend(ns, childNode,
                 IF key < ns[childNode].key THEN ns[childNode].left
                 ELSE ns[childNode].right, key)

\* lines 125-151: the arena gets the sentinel made for parentNode, newNode and
\* the two sentinels below newNode
rbInsert(t, key) ==
    LET ns == t.nodes
        fresh == Len(ns) + 1
        newNode == Len(ns) + 2
        parentNode == descend(Append(ns, Sentinel), fresh, t.root, key)
    IN  IF parentNode = nil THEN Panicked(t)
        ELSE LET ns1 == ns \o <<Sentinel,
                                [color |-> red, left |-> nil, right |-> nil,
                                 p |-> parentNode, key |-> key],
                                Sentinel, Sentinel>>
                 atRoot == isSentinel(ns1, parentNode)
                 ns2 == IF atRoot THEN ns1
                        ELSE IF key < ns1[parentNode].key
                             THEN [ns1 EXCEPT ![parentNode].left = newNode]
                             ELSE [ns1 EXCEPT ![parentNode].right = newNode]
                 ns3 == [ns2 EXCEPT ![newNode].left = Len(ns) + 3,
                                    ![newNode].right = Len(ns) + 4]
             IN  rebalanceInsert([t EXCEPT !.nodes = ns3,
                                           !.root = IF atRoot THEN newNode ELSE @],
                                 newNode)

\* how many Insert calls were made: each allocates four nodes
RbInserts == (Len(rbtree.nodes) - 1) \div 4

RbInsert(key) ==
    /\ rbtree.err = Nil
    /\ RbInserts < MaxRbInserts
    /\ rbtree' = [rbInsert(rbtree, key) EXCEPT !.op = "Insert"]
    /\ UNCHANGED <<kdvars, heap, list, sorted, table>>

\* the nodes of the tree below n that are not sentinels
RECURSIVE Inner(_, _)
Inner(ns, n) ==
    IF isSentinel(ns, n) THEN {}
    ELSE {n} \cup Inner(ns, ns[n].left) \cup Inner(ns, ns[n].right)

\* the numbers of black nodes on the downward paths from n to a sentinel leaf,
\* n not counted
RECURSIVE BlackHeights(_, _)
BlackHeights(ns, n) ==
    IF isSentinel(ns, n) THEN {0}
    ELSE LET below(c) == {h + (IF ns[c].color = black THEN 1 ELSE 0) :
                              h \in BlackHeights(ns, c)}
         IN  below(ns[n].left) \cup below(ns[n].right)

----------------------------------------------------------------------------
(* The heap of package heap.  heap.input and heap.out are history: the      *)
(* values the heap was built from (the label of a value is its index) and   *)
(* the labels and values ExtractMaximum returned.                           *)

EMPTY_HEAP_ERROR == "empty heap"

HeapInputs == UNION {[1..n -> 0..MaxValue] : n \in 0..MaxHeap}

\* s with its elements at the Go indices i and j swapped
Swap(s, i, j) == [s EXCEPT ![i + 1] = s[j + 1], ![j + 1] = s[i + 1]]

\* lines 23-48
RECURSIVE MaxHeapify(_, _)
MaxHeapify(h, i) ==
    LET ileft == 2 * (i + 1) - 1
        iright == 2 * (i + 1)
        first == IF h.size > ileft /\ Index(h.value, ileft) > Index(h.value, i)
                 THEN ileft ELSE i
        ilargest == IF h.size > iright /\ Index(h.value, iright) > Index(h.value, first)
                    THEN iright ELSE first
    IN  IF i # ilargest
        THEN MaxHeapify([h EXCEPT !.value = Swap(@, i, ilargest),
                                  !.label = Swap(@, i, ilargest)], ilargest)
        ELSE h

\* lines 50-55: label, value, error
Maximum(h) ==
    IF h.size = 0 THEN <<0, 0, EMPTY_HEAP_ERROR>>
    ELSE <<Index(h.label, 0), Index(h.value, 0), Nil>>

\* lines 74-76: MaxHeapify(i) for i from h.size/2 down to 0
RECURSIVE heapifyFrom(_, _)
heapifyFrom(h, i) ==
    IF i = -1 THEN h ELSE heapifyFrom(MaxHeapify(h, i), i - 1)

\* lines 18-20 with capacity 0
NewHeap ==
    [value |-> <<>>, label |-> <<>>, size |-> 0, capacity |-> 0,
     op |-> "New", err |-> Nil, input |-> <<>>, out |-> <<>>]

\* lines 69-78, the labels being 0, 1, ... as in the tests
BuildMaxHeap(values) ==
    /\ heap.op = "New"
    /\ heap' = [heapifyFrom([heap EXCEPT !.size = Len(values),
                                         !.capacity = Len(values),
                                         !.value = values,
                                         !.label = [i \in 1..Len(values) |-> i - 1]],
                            Len(values) \div 2)
                   EXCEPT !.op = "BuildMaxHeap", !.input = values]
    /\ UNCHANGED <<kdvars, rbtree, list, sorted, table>>

\* lines 57-67
ExtractMaximum ==
    /\ heap.op # "New"
    /\ IF heap.size = 0
       THEN heap' = [heap EXCEPT !.op = "ExtractMaximum", !.err = EMPTY_HEAP_ERROR]
       ELSE LET max == Maximum(heap)
                h1 == [heap EXCEPT !.size = @ - 1,
                                   !.value = Append(Tail(@), 0),
                                   !.label = Append(Tail(@), 0)]
            IN  heap' = [MaxHeapify(h1, 0) EXCEPT !.op = "ExtractMaximum",
                                                  !.err = Nil,
                                                  !.out = Append(@, <<max[1], max[2]>>)]
    /\ UNCHANGED <<kdvars, rbtree, list, sorted, table>>

----------------------------------------------------------------------------
(* The linked list of package linkedlist (the last version of the file,     *)
(* lines 488-638).  Its nodes live in the arena list.nodes; list.op, arg,   *)
(* ret, err and pre record the call made last and the list before it.       *)

EMPTY_LIST == "empty list"
NEGATIVE_INDEX == "index may not be negative"
INDEX_ERROR == "index error"

ListValues == 0..MaxListValue
ListIndices == (0 - 1)..MaxListNodes

\* lines 508-510
NewList ==
    [nodes |-> <<>>, Head |-> nil, length |-> 0,
     op |-> "New", arg |-> 0, ret |-> 0, err |-> Nil,
     pre |-> [nodes |-> <<>>, Head |-> nil, length |-> 0]]

\* the list as a call finds it
Before(l) == [nodes |-> l.nodes, Head |-> l.Head, length |-> l.length]

\* the last node of the chain from node on (lines 561-564)
RECURSIVE lastNode(_, _)
lastNode(ns, node) == IF ns[node].Next # nil THEN lastNode(ns, ns[node].Next) ELSE node

\* lines 552-568: the list after Append(value), with the length returned
listAppend(l, value) ==
    LET ns == l.nodes
        new == Len(ns) + 1
    IN  IF l.Head = nil
        THEN [l EXCEPT !.nodes = Append(ns, [Prev |-> nil, Next |-> nil, Value |-> value]),
                       !.Head = new, !.length = @ + 1, !.ret = 1]
        ELSE LET node == lastNode(ns, l.Head)
             IN  [l EXCEPT !.nodes = Append([ns EXCEPT ![node].Next = new],
                                            [Prev |-> node, Next |-> nil, Value |-> value]),
                           !.length = @ + 1, !.ret = l.length + 1]

ListAppend(value) ==
    /\ Len(list.nodes) < MaxListNodes
    /\ list' = [listAppend(list, value) EXCEPT !.op = "Append", !.arg = value,
                                                !.err = Nil, !.pre = Before(list)]
    /\ UNCHANGED <<kdvars, rbtree, heap, sorted, table>>

\* lines 572-584
ListPrepend(value) ==
    /\ Len(list.nodes) < MaxListNodes
    /\ LET ns == list.nodes
           new == Len(ns) + 1
       IN  IF list.Head = nil
           THEN list' = [list EXCEPT
                            !.nodes = Append(ns, [Prev |-> nil, Next |-> nil, Value |-> value]),
                            !.Head = new, !.length = @ + 1,
                            !.op = "Prepend", !.arg = value, !.ret = 0, !.err = Nil,
                            !.pre = Before(list)]
           ELSE list' = [list EXCEPT
                            !.nodes = Append([ns EXCEPT ![list.Head].Prev = new],
                                             [Prev |-> nil, Next |-> list.Head, Value |-> value]),
                            !.Head = new, !.length = @ + 1,
                            !.op = "Prepend", !.arg = value, !.ret = list.length + 1,
                            !.err = Nil, !.pre = Before(list)]
    /\ UNCHANGED <<kdvars, rbtree, heap, sorted, table>>

\* lines 624-629: the node the loop ends at, started at node with i steps
\* made; nil when the chain ends before index
RECURSIVE walk(_, _, _, _)
walk(ns, node, i, index) ==
    IF i = index THEN node
    ELSE IF ns[node].Next = nil THEN nil
    ELSE walk(ns, ns[node].Next, i + 1, index)

\* lines 630-635: node is taken out of the chain
unlink(ns, node) ==
    LET ns1 == IF ns[node].Prev # nil
               THEN [ns EXCEPT ![ns[node].Prev].Next = ns[node].Next] ELSE ns
    IN  IF ns1[node].Next # nil
        THEN [ns1 EXCEPT ![ns1[node].Next].Prev = ns1[node].Prev] ELSE ns1

\* lines 608-638: the list after Delete(index), with the value and error returned
listDelete(l, index) ==
    IF l.Head = nil THEN [l EXCEPT !.ret = 0, !.err = EMPTY_LIST]
    ELSE IF index < 0 THEN [l EXCEPT !.ret = 0, !.err = NEGATIVE_INDEX]
    ELSE IF index = 0
    THEN [l EXCEPT !.Head = l.nodes[l.Head].Next, !.length = 0,
                   !.ret = l.nodes[l.Head].Value, !.err = Nil]
    ELSE LET node == walk(l.nodes, l.Head, 0, index)
         IN  IF node = nil THEN [l EXCEPT !.ret = 0, !.err = INDEX_ERROR]
             ELSE [l EXCEPT !.nodes = unlink(l.nodes, node), !.length = @ - 1,
                            !.ret = l.nodes[node].Value, !.err = Nil]

ListDelete(index) ==
    /\ list' = [listDelete(list, index) EXCEPT !.op = "Delete", !.arg = index,
                                                !.pre = Before(list)]
    /\ UNCHANGED <<kdvars, rbtree, heap, sorted, table>>

\* the nodes reachable from node along Next, in order; the chain is cut after
\* more steps than the arena has nodes
RECURSIVE ChainFrom(_, _, _)
ChainFrom(ns, node, fuel) ==
    IF node = nil \/ fuel = 0 THEN <<>>
    ELSE <<node>> \o ChainFrom(ns, ns[node].Next, fuel - 1)

Chain(l) == ChainFrom(l.nodes, l.Head, Len(l.nodes) + 1)

----------------------------------------------------------------------------
(* The hash table of package hashtable: an array of linked lists of         *)
(* KeyValuePairs.  A key is a HashString, a sequence of runes.              *)

KEY_ERROR == "key not found"

HtKeys == UNION {[1..n -> 1..MaxRune] : n \in 1..MaxKeyLen}
HtValues == {"a", "b"}

\* lines 27-33
RECURSIVE sumRune(_)
sumRune(summable) ==
    IF summable = <<>> THEN 0 ELSE Head(summable) + sumRune(Tail(summable))

\* line 37
Hash(hs) == sumRune(hs)

\* lines 41-43 with Knuth's c = 0.618...: floor(size * frac(val * c)), computed
\* in thousandths (which gives the float result for the hashes up to 8 and
\* the sizes up to 4)
multiplicationHash(val, size) == (size * ((val * 618) % 1000)) \div 1000

\* a list of the array: linkedlist.New(), with the value and error its
\* Delete returned last
NewBucket == [nodes |-> <<>>, Head |-> nil, length |-> 0, ret |-> 0, err |-> Nil]

\* lines 45-53
InitHashTable(size) ==
    [Size |-> size, array |-> [i \in 1..size |-> NewBucket],
     op |-> "InitHashTable", arg |-> <<>>, err |-> Nil,
     pre |-> [i \in 1..size |-> NewBucket]]

\* lines 64-65: the list of key
bucketOf(ht, key) == Index(ht.array, multiplicationHash(Hash(key), ht.Size))

\* lines 66-73, 82-92: the Go index in the list of the first node from node
\* on whose pair has the key, index being the index of node; -1 when none has
RECURSIVE findKey(_, _, _, _)
findKey(ns, node, index, key) ==
    IF node = nil THEN 0 - 1
    ELSE IF ns[node].Value.key = key THEN index
    ELSE findKey(ns, ns[node].Next, index + 1, key)

\* the node at the Go index i of the chain from node on
RECURSIVE nodeAt(_, _, _)
nodeAt(ns, node, i) == IF i = 0 THEN node ELSE nodeAt(ns, ns[node].Next, i - 1)

\* lines 62-75: the value and the error Get returns
htGet(ht, key) ==
    LET lst == bucketOf(ht, key)
        i == findKey(lst.nodes, lst.Head, 0, key)
    IN  IF i < 0 THEN [value |-> Nil, err |-> KEY_ERROR]
        ELSE [value |-> lst.nodes[nodeAt(lst.nodes, lst.Head, i)].Value.value, err |-> Nil]

\* how many pairs the lists of the array were given
HtInserts(ht) ==
    LET RECURSIVE sum(_)
        sum(i) == IF i = 0 THEN 0 ELSE Len(ht.array[i].nodes) + sum(i - 1)
    IN  sum(ht.Size)

\* lines 55-60
HtInsert(key, value) ==
    /\ HtInserts(table) < MaxHtInserts
    /\ LET pos == multiplicationHash(Hash(key), table.Size) + 1
       IN  table' = [table EXCEPT
                        !.array[pos] = listAppend(@, [key |-> key, value |-> value]),
                        !.op = "Insert", !.arg = key, !.err = Nil, !.pre = table.array]
    /\ UNCHANGED <<kdvars, rbtree, heap, list, sorted>>

\* lines 77-94
HtDelete(key) ==
    /\ LET pos == multiplicationHash(Hash(key), table.Size) + 1
           lst == table.array[pos]
           index == findKey(lst.nodes, lst.Head, 0, key)
       IN  IF index < 0
           THEN table' = [table EXCEPT !.op = "Delete", !.arg = key, !.err = KEY_ERROR,
                                       !.pre = table.array]
           ELSE table' = [table EXCEPT !.array[pos] = listDelete(lst, index),
                                       !.op = "Delete", !.arg = key, !.err = Nil,
                                       !.pre = table.array]
    /\ UNCHANGED <<kdvars, rbtree, heap, list, sorted>>

\* how many pairs with the key the lists of arr hold
RECURSIVE Pairs(_, _, _)
Pairs(arr, i, key) ==
    IF i = 0 THEN 0
    ELSE Cardinality({n \in 1..Len(Chain(arr[i])) :
                         arr[i].nodes[Chain(arr[i])[n]].Value.key = key})
         + Pairs(arr, i - 1, key)

----------------------------------------------------------------------------
(* The merge sort of package mergesort.  A slice expression s[low:high]     *)
(* panics unless low <= high <= cap(s).                                     *)

SLICE_BOUNDS == "panic: slice bounds out of range"

SortInputs == UNION {[1..n -> 0..MaxSortValue] : n \in 0..MaxSortLen}

\* the Go slice s[low:high], for 0 <= low <= high <= len(s)
Slice(s, low, high) == SubSeq(s, low + 1, high)

\* lines 46-60: the loop of merge
RECURSIVE mergeLoop(_, _, _, _, _)
mergeLoop(left, right, posLeft, posRight, merged) ==
    IF Len(merged) = Len(left) + Len(right) THEN merged
    ELSE IF posLeft = Len(left)
    THEN mergeLoop(left, right, posLeft, posRight + 1, Append(merged, Index(right, posRight)))
    ELSE IF posRight = Len(right)
    THEN mergeLoop(left, right, posLeft + 1, posRight, Append(merged, Index(left, posLeft)))
    ELSE IF Index(left, posLeft) < Index(right, posRight)
    THEN mergeLoop(left, right, posLeft + 1, posRight, Append(merged, Index(left, posLeft)))
    ELSE mergeLoop(left, right, posLeft, posRight + 1, Append(merged, Index(right, posRight)))

\* lines 40-62
merge(left, right) == mergeLoop(left, right, 0, 0, <<>>)

\* lines 28-33: the inner loop from i on; c is cap(sortable), which the
\* appends of line 31 leave as it is
RECURSIVE mergePass(_, _, _, _)
mergePass(sortable, c, mergeSize, i) ==
    LET n == Len(sortable)
        high == Min(n, i + 2 * mergeSize)
    IN  IF ~(i < n) THEN [out |-> sortable, err |-> Nil]
        ELSE IF i + mergeSize > c \/ i + mergeSize > high
        THEN [out |-> sortable, err |-> SLICE_BOUNDS]
        ELSE LET left == Slice(sortable, i, i + mergeSize)
                 right == Slice(sortable, i + mergeSize, high)
             IN  mergePass(Slice(sortable, 0, i) \o merge(left, right)
                               \o Slice(sortable, high, n),
                           c, mergeSize, i + 2 * mergeSize)

\* lines 26-35: the outer loop from mergeSize on
RECURSIVE mergeSortFrom(_, _, _)
mergeSortFrom(sortable, c, mergeSize) ==
    IF ~(mergeSize <= Len(sortable)) THEN [out |-> sortable, err |-> Nil]
    ELSE LET r == mergePass(sortable, c, mergeSize, 0)
         IN  IF r.err # Nil THEN r ELSE mergeSortFrom(r.out, c, mergeSize * 2)

\* lines 22-37, for a slice of capacity c
MergeSort(sortable, c) == mergeSortFrom(sortable, c, 1)

NoSort == [op |-> "none", input |-> <<>>, cap |-> 0, out |-> <<>>, err |-> Nil]

\* a call of MergeSort with a slice whose capacity is its length or one more
MergeSortCall(sortable, c) ==
    /\ sorted.op = "none"
    /\ LET r == MergeSort(sortable, c)
       IN  sorted' = [op |-> "MergeSort", input |-> sortable, cap |-> c,
                      out |-> r.out, err |-> r.err]
    /\ UNCHANGED <<kdvars, rbtree, heap, list, table>>

----------------------------------------------------------------------------
(* The public operations *)

Running == call.err # PANIC
Idle == callerpc = "idle" /\ Running

NoSearch == /\ callerpc' = "idle"
            /\ found' = <<>>
            /\ chans' = <<>>
            /\ gor' = <<>>

InitWith(kk, c) ==
    /\ k = kk
    /\ nodes = <<NewNode(0, c)>>
    /\ call = [op |-> "NewKDTree", arg |-> <<>>, err |-> Nil, pre |-> <<>>]
    /\ inserted = [p \in AnyPoints \cup ScenarioPoints |-> 0]
    /\ callerpc = "idle"
    /\ found = <<>>
    /\ chans = <<>>
    /\ gor = <<>>
    /\ rbtree = NewRedBlackTree
    /\ heap = NewHeap
    /\ list = NewList
    /\ sorted = NoSort
    /\ table = InitHashTable(HtSize)

Init == InitWith(K, Cap)

InsertCall(pt) ==
    LET r == insert(nodes, root, pt) IN
    /\ Idle
    /\ Len(r.nodes) <= MaxNodes
    /\ nodes' = r.nodes
    /\ call' = [op |-> "Insert", arg |-> pt, err |-> r.err, pre |-> nodes]
    /\ NoSearch
    /\ UNCHANGED <<k, others>>

Insert(pt) == InsertCall(pt) /\ UNCHANGED inserted

\* Insert, counted in the history of inserted points
InsertCounted(pt) ==
    /\ InsertCall(pt)
    /\ inserted' = IF call'.err = Nil THEN [inserted EXCEPT ![pt] = @ + 1] ELSE inserted

Delete(pt) ==
    LET r == delete(nodes, root, pt) IN
    /\ Idle
    /\ nodes' = r.nodes
    /\ call' = [op |-> "Delete", arg |-> pt, err |-> r.err, pre |-> nodes]
    /\ NoSearch
    /\ UNCHANGED <<k, inserted, others>>

----------------------------------------------------------------------------
(* KDTree.Search and node.search.  A goroutine is at one of                 *)
(*   "none"    not started (the node was pruned or not reached)             *)
(*   "start"   started by `go`, at line 60                                  *)
(*   "select"  an internal node waiting in the select of line 77            *)
(*   "send"    blocked in c <- pt (lines 80, 86, 103)                       *)
(*   "close"   at close(c), line 107                                        *)
(*   "done"    returned                                                     *)
(* The channels are unbuffered: a send and its receive are one step.        *)

NoGoroutine == [pc |-> "none", cleft |-> nil, cright |-> nil, pt |-> <<>>, i |-> 0]
NoChan == [state |-> "none", sent |-> 0]
OpenChan == [state |-> "open", sent |-> 0]
\* the `else close(...)` branches of lines 66-68 and 72-74 left out
PrunedLeftOpen == [state |-> "open", sent |-> 0]

\* lines 67, 73: the channel of a subtree that is not searched is closed at once
Pruned == [state |-> "closed", sent |-> 0]

\* lines 94-105 from loop index i on: the leaf blocks sending its next point
\* inside the box, or leaves the loop
LeafAdvance(g, n, i, bounds) ==
    LET pts == nodes[n].points
        hits == {j \in i..(Len(pts) - 1) : Within(Index(pts, j), bounds)}
    IN  IF hits = {} THEN [g EXCEPT !.pc = "close", !.pt = <<>>, !.i = Len(pts)]
        ELSE LET j == CHOOSE h \in hits : \A h2 \in hits : h <= h2
             IN  [g EXCEPT !.pc = "send", !.pt = Index(pts, j), !.i = j + 1]

\* the loop condition with && for ||: the relay stops at the first closed child
LoopTopAnd(g) ==
    IF g.cleft # nil /\ g.cright # nil
    THEN [g EXCEPT !.pc = "select", !.pt = <<>>]
    ELSE [g EXCEPT !.pc = "close", !.pt = <<>>]

\* the loop condition without `|| cright != nil`: the relay stops when the left
\* child's channel is closed
LoopTopLeft(g) ==
    IF g.cleft # nil
    THEN [g EXCEPT !.pc = "select", !.pt = <<>>]
    ELSE [g EXCEPT !.pc = "close", !.pt = <<>>]

\* line 76: the loop condition of the relay
LoopTop(g) ==
    IF g.cleft # nil \/ g.cright # nil
    THEN [g EXCEPT !.pc = "select", !.pt = <<>>]
    ELSE [g EXCEPT !.pc = "close", !.pt = <<>>]

\* line 64 with >= for >: the left subtree is searched also when the split is
\* the box's lower bound
exploreLeftGe(nd, bounds) == nd.split >= Index(bounds, nd.dim)

\* lines 64 and 70: whether the left and the right subtree are searched
exploreLeft(nd, bounds) == nd.split > Index(bounds, nd.dim)
exploreRight(nd, bounds) == nd.split < Index(bounds, nd.dim + Len(bounds) \div 2)

\* goroutine n once its send was received
AfterSend(n) ==
    IF nodes[n].left # nil THEN LoopTop(gor[n])
    ELSE LeafAdvance(gor[n], n, gor[n].i, call.arg)

\* line 47 with < for !=: a box that is too long is searched with
badBoxShort(kk, bbox) == Len(bbox) < kk * 2

\* line 47
badBox(kk, bbox) == Len(bbox) # kk * 2

\* Search with an early return of an error when the root is a leaf without points
SearchEmptyError(bbox) ==
    LET empty == nodes[root].left = nil /\ Len(nodes[root].points) = 0 IN
    /\ Idle
    /\ call' = [op |-> "Search", arg |-> bbox, pre |-> nodes,
                err |-> IF badBox(k, bbox) THEN DIMENSION_ERROR
                        ELSE IF empty THEN EMPTYNODE ELSE Nil]
    /\ IF badBox(k, bbox) \/ empty
       THEN NoSearch
       ELSE /\ callerpc' = "range"
            /\ found' = <<>>
            /\ chans' = [n \in DOMAIN nodes |-> IF n = root THEN OpenChan ELSE NoChan]
            /\ gor' = [n \in DOMAIN nodes |->
                          IF n = root THEN [NoGoroutine EXCEPT !.pc = "start"]
                          ELSE NoGoroutine]
    /\ UNCHANGED <<k, nodes, inserted, others>>

Search(bbox) ==
    /\ Idle
    /\ call' = [op |-> "Search", arg |-> bbox, pre |-> nodes,
                err |-> IF badBox(k, bbox) THEN DIMENSION_ERROR ELSE Nil]
    /\ IF badBox(k, bbox)
       THEN NoSearch
       ELSE /\ callerpc' = "range"
            /\ found' = <<>>
            /\ chans' = [n \in DOMAIN nodes |-> IF n = root THEN OpenChan ELSE NoChan]
            /\ gor' = [n \in DOMAIN nodes |->
                          IF n = root THEN [NoGoroutine EXCEPT !.pc = "start"]
                          ELSE NoGoroutine]
    /\ UNCHANGED <<k, nodes, inserted, others>>

\* Enter with the two `go` statements outside their ifs: a sub-search is
\* started also on a channel that was closed as pruned
EnterAlwaysGo(n) ==
    /\ Running
    /\ n \in DOMAIN gor
    /\ gor[n].pc = "start"
    /\ LET nd == nodes[n]
           bounds == call.arg
       IN  IF nd.left # nil
           THEN LET goL == exploreLeft(nd, bounds)
                    goR == exploreRight(nd, bounds)
                IN  /\ chans' = [chans EXCEPT
                                    ![nd.left] = IF goL THEN OpenChan ELSE Pruned,
                                    ![nd.right] = IF goR THEN OpenChan ELSE Pruned]
                    /\ gor' = [gor EXCEPT
                                  ![n] = [@ EXCEPT !.pc = "select",
                                                   !.cleft = nd.left,
                                                   !.cright = nd.right],
                                  ![nd.left].pc = "start",
                                  ![nd.right].pc = "start"]
           ELSE /\ gor' = [gor EXCEPT ![n] = LeafAdvance(@, n, 0, bounds)]
                /\ UNCHANGED chans
    /\ UNCHANGED <<k, nodes, call, inserted, callerpc, found, others>>

\* lines 60-75 of an internal node, or the start of a leaf's scan
Enter(n) ==
    /\ Running
    /\ n \in DOMAIN gor
    /\ gor[n].pc = "start"
    /\ LET nd == nodes[n]
           bounds == call.arg
       IN  IF nd.left # nil
           THEN LET goL == exploreLeft(nd, bounds)
                    goR == exploreRight(nd, bounds)
                IN  /\ chans' = [chans EXCEPT
                                    ![nd.left] = IF goL THEN OpenChan ELSE Pruned,
                                    ![nd.right] = IF goR THEN OpenChan ELSE Pruned]
                    /\ gor' = [gor EXCEPT
                                  ![n] = [@ EXCEPT !.pc = "select",
                                                   !.cleft = nd.left,
                                                   !.cright = nd.right],
                                  ![nd.left].pc = IF goL THEN "start" ELSE "none",
                                  ![nd.right].pc = IF goR THEN "start" ELSE "none"]
           ELSE /\ gor' = [gor EXCEPT ![n] = LeafAdvance(@, n, 0, bounds)]
                /\ UNCHANGED chans
    /\ UNCHANGED <<k, nodes, call, inserted, callerpc, found, others>>

\* Close by a sub-search that also empties its node's points, as line 181 does
\* for a split leaf
CloseDrain(n) ==
    /\ Running
    /\ n \in DOMAIN gor
    /\ gor[n].pc = "close"
    /\ gor' = [gor EXCEPT ![n].pc = "done"]
    /\ nodes' = [nodes EXCEPT ![n].points = <<>>]
    /\ IF chans[n].state = "closed"
       THEN /\ call' = [call EXCEPT !.err = PANIC]
            /\ UNCHANGED chans
       ELSE /\ chans' = [chans EXCEPT ![n].state = "closed"]
            /\ UNCHANGED call
    /\ UNCHANGED <<k, inserted, callerpc, found, others>>

\* line 107; closing a closed channel panics
Close(n) ==
    /\ Running
    /\ n \in DOMAIN gor
    /\ gor[n].pc = "close"
    /\ gor' = [gor EXCEPT ![n].pc = "done"]
    /\ IF chans[n].state = "closed"
       THEN /\ call' = [call EXCEPT !.err = PANIC]
            /\ UNCHANGED chans
       ELSE /\ chans' = [chans EXCEPT ![n].state = "closed"]
            /\ UNCHANGED call
    /\ UNCHANGED <<k, nodes, inserted, callerpc, found, others>>

\* lines 78-83: the select takes the case of cleft
RecvLeft(n) ==
    /\ Running
    /\ n \in DOMAIN gor
    /\ gor[n].pc = "select"
    /\ gor[n].cleft # nil
    /\ LET c == gor[n].cleft IN
       \/ /\ gor[c].pc = "send"
          /\ gor' = [gor EXCEPT ![n] = [@ EXCEPT !.pc = "send", !.pt = gor[c].pt],
                                ![c] = AfterSend(c)]
          /\ chans' = [chans EXCEPT ![c].sent = @ + 1]
       \/ /\ chans[c].state = "closed"
          /\ gor' = [gor EXCEPT ![n] = LoopTop([@ EXCEPT !.cleft = nil])]
          /\ UNCHANGED chans
    /\ UNCHANGED <<k, nodes, call, inserted, callerpc, found, others>>

\* the relay as two loops, `for pt := range cleft` and then `for pt := range
\* cright`: the case of cright is taken only once cleft is closed
RecvRightAfterLeft(n) ==
    /\ Running
    /\ n \in DOMAIN gor
    /\ gor[n].pc = "select"
    /\ gor[n].cleft = nil
    /\ gor[n].cright # nil
    /\ LET c == gor[n].cright IN
       \/ /\ gor[c].pc = "send"
          /\ gor' = [gor EXCEPT ![n] = [@ EXCEPT !.pc = "send", !.pt = gor[c].pt],
                                ![c] = AfterSend(c)]
          /\ chans' = [chans EXCEPT ![c].sent = @ + 1]
       \/ /\ chans[c].state = "closed"
          /\ gor' = [gor EXCEPT ![n] = LoopTop([@ EXCEPT !.cright = nil])]
          /\ UNCHANGED chans
    /\ UNCHANGED <<k, nodes, call, inserted, callerpc, found, others>>

\* lines 84-89: the select takes the case of cright
RecvRight(n) ==
    /\ Running
    /\ n \in DOMAIN gor
    /\ gor[n].pc = "select"
    /\ gor[n].cright # nil
    /\ LET c == gor[n].cright IN
       \/ /\ gor[c].pc = "send"
          /\ gor' = [gor EXCEPT ![n] = [@ EXCEPT !.pc = "send", !.pt = gor[c].pt],
                                ![c] = AfterSend(c)]
          /\ chans' = [chans EXCEPT ![c].sent = @ + 1]
       \/ /\ chans[c].state = "closed"
          /\ gor' = [gor EXCEPT ![n] = LoopTop([@ EXCEPT !.cright = nil])]
          /\ UNCHANGED chans
    /\ UNCHANGED <<k, nodes, call, inserted, callerpc, found, others>>

\* lines 53-55: the caller receives a point from the root's channel
CallerRecv ==
    /\ Running
    /\ callerpc = "range"
    /\ gor[root].pc = "send"
    /\ found' = Append(found, gor[root].pt)
    /\ gor' = [gor EXCEPT ![root] = AfterSend(root)]
    /\ chans' = [chans EXCEPT ![root].sent = @ + 1]
    /\ UNCHANGED <<k, nodes, call, inserted, callerpc, others>>

\* lines 53, 56: the root's channel is closed, the range loop ends, Search returns
CallerReturn ==
    /\ Running
    /\ callerpc = "range"
    /\ chans[root].state = "closed"
    /\ callerpc' = "idle"
    /\ UNCHANGED <<k, nodes, call, inserted, found, chans, gor, others>>

----------------------------------------------------------------------------
(* Specifications *)

SearchStep ==
    \/ \E n \in 1..MaxNodes : Enter(n) \/ Close(n) \/ RecvLeft(n) \/ RecvRight(n)
    \/ CallerRecv
    \/ CallerReturn

Next ==
    \/ \E pt \in Points : Insert(pt) \/ Delete(pt)
    \/ \E bbox \in AnyBoxes : Search(bbox)
    \/ SearchStep

\* the tree under calls that keep the precondition len(point) = k
Spec == Init /\ [][Next]_vars

\* the goroutines of a query are scheduled fairly
FairSpec == Spec /\ WF_vars(SearchStep)

\* a fresh tree into which distinct points are inserted, and which is searched,
\* with the history of the inserted points
NextInsert ==
    \/ \E pt \in Points : inserted[pt] = 0 /\ InsertCounted(pt)
    \/ \E bbox \in Boxes : Search(bbox)
    \/ SearchStep

SpecInsert == Init /\ [][NextInsert]_vars

\* Insert and Delete alone: Search changes no field of the tree
NextTree == \E pt \in Points : Insert(pt) \/ Delete(pt)

SpecTree == Init /\ [][NextTree]_vars

\* Insert and Delete with points of any arity (Search is not called)
NextArity == \E pt \in AnyPoints : Insert(pt) \/ Delete(pt)

SpecArity == Init /\ [][NextArity]_vars

\* a tree of capacity 4 into which the scenario's points are inserted, each
\* once, in any order, and which is searched
NextScenario ==
    \/ \E pt \in ScenarioPoints : inserted[pt] = 0 /\ InsertCounted(pt)
    \/ \E bbox \in ScenarioBoxes : Search(bbox)
    \/ SearchStep

SpecScenario == InitWith(2, 4) /\ [][NextScenario]_vars

\* Insert and Delete on a tree whose leaves hold one point more, so that a
\* leaf can lose a point and keep two
SpecWide == InitWith(K, Cap + 1) /\ [][NextTree]_vars

\* a tree over points of one coordinate, of any leaf capacity up to MaxLeaf,
\* filled until its root splits
InitSplit == \E c \in 1..MaxLeaf : InitWith(1, c)

NextSplit == \E pt \in SplitPoints : nodes[root].left = nil /\ Insert(pt)

SpecSplit == InitSplit /\ [][NextSplit]_vars

\* the red-black tree under Insert
NextRBTree == \E key \in Keys : RbInsert(key)

SpecRBTree == Init /\ [][NextRBTree]_vars

\* a heap built once, from which the maximum is extracted until it is empty
\* and once more
NextHeap ==
    \/ \E values \in HeapInputs : BuildMaxHeap(values)
    \/ ExtractMaximum

SpecHeap == Init /\ [][NextHeap]_vars

\* the linked list under Append, Prepend and Delete
NextList ==
    \/ \E value \in ListValues : ListAppend(value) \/ ListPrepend(value)
    \/ \E index \in ListIndices : ListDelete(index)

SpecList == Init /\ [][NextList]_vars

\* one call of MergeSort
NextSort ==
    \E sortable \in SortInputs : \E c \in {Len(sortable), Len(sortable) + 1} :
        MergeSortCall(sortable, c)

SpecSort == Init /\ [][NextSort]_vars

\* the hash table under Insert and Delete
NextTable ==
    \/ \E key \in HtKeys, value \in HtValues : HtInsert(key, value)
    \/ \E key \in HtKeys : HtDelete(key)

SpecTable == Init /\ [][NextTable]_vars

----------------------------------------------------------------------------
(* Properties *)

\* a Search with a box of the right length has returned
Returned == call.op = "Search" /\ call.err = Nil /\ callerpc = "idle"

\* C1: after inserting distinct points into a fresh tree, every Search returns
\* exactly the inserted points inside the box, each once.
C1_InsertSearchAgreement ==
    (Returned /\ \A p \in Points : inserted[p] <= 1)
        => \A p \in Points :
              Occurrences(found, p)
                  = IF inserted[p] = 1 /\ Within(p, call.arg) THEN 1 ELSE 0

\* C2: Search returns every stored point inside the box, bounds included.
C2_SearchComplete ==
    Returned => \A p \in Points :
                   Within(p, call.arg) => Occurrences(found, p) >= Stored(nodes, root, p)

\* C3: after an Insert(p) that returns no error, p is stored and the tree holds
\* one point more than before.
C3_InsertStores ==
    (call.op = "Insert" /\ call.err = Nil)
        => /\ Stored(nodes, root, call.arg) = Stored(call.pre, root, call.arg) + 1
           /\ Size(nodes, root) = Size(call.pre, root) + 1

\* C4: Delete(p) returns PointNotFound whenever no point equal to p is stored.
C4_DeleteAbsent ==
    (call.op = "Delete" /\ Stored(call.pre, root, call.arg) = 0)
        => call.err = POINT_NOT_FOUND

\* the leaf that Delete's argument routed to held no point equal to it
DeleteMissed ==
    /\ call.op = "Delete"
    /\ Occurrences(call.pre[LeafOf(call.pre, root, call.arg)].points, call.arg) = 0

\* C5: a Delete(p) that finds no point equal to p in the leaf p routes to
\* leaves every node of the tree as it was.
C5_DeleteMissFrame == DeleteMissed => nodes = call.pre

C5_Witness ==
    /\ DeleteMissed
    /\ call.pre[root].left # nil
    /\ Len(call.pre[LeafOf(call.pre, root, call.arg)].points) > 0

\* C6: a Delete(p) on a tree that stores p removes exactly one copy of p and no
\* other point, and a Search on a tree that stores no copy of p never returns p.
C6_DeleteSearchAgreement ==
    /\ (call.op = "Delete" /\ Stored(call.pre, root, call.arg) >= 1)
          => \A q \in Points :
                Stored(nodes, root, q)
                    = Stored(call.pre, root, q) - (IF q = call.arg THEN 1 ELSE 0)
    /\ call.op = "Search"
          => \A p \in Points : Stored(call.pre, root, p) = 0 => Occurrences(found, p) = 0

C6_Witness ==
    /\ call.op = "Delete"
    /\ call.pre[root].left # nil
    /\ Stored(call.pre, root, call.arg) = 2
    /\ Stored(nodes, root, call.arg) = 1

\* C7: Insert(p) with len(p) # k returns DimensionMismatch and leaves the tree
\* as it was.
C7_InsertArity ==
    (call.op = "Insert" /\ Len(call.arg) # k)
        => call.err = DIMENSION_ERROR /\ nodes = call.pre

\* C8: Search with a box of length # 2k returns DimensionMismatch at once (no
\* goroutine, no channel, no point, the tree as it was), and a Search with a
\* box of length 2k never returns DimensionMismatch.
C8_SearchArity ==
    call.op = "Search"
        => IF Len(call.arg) # 2 * k
           THEN /\ call.err = DIMENSION_ERROR
                /\ callerpc = "idle"
                /\ gor = <<>>
                /\ chans = <<>>
                /\ found = <<>>
                /\ nodes = call.pre
           ELSE call.err # DIMENSION_ERROR

C8_Witness ==
    /\ call.op = "Search"
    /\ Len(call.arg) # 2 * k
    /\ nodes[root].left # nil
    /\ Size(nodes, root) > 0

\* C9: under fair scheduling of the goroutines, every Search returns.
C9_SearchTerminates == (callerpc = "range") ~> (callerpc = "idle")

\* a query has returned whose root relayed points of both of its children
C9_Witness ==
    /\ Returned
    /\ nodes[root].left # nil
    /\ chans[nodes[root].left].sent >= 1
    /\ chans[nodes[root].right].sent >= 1

\* the goroutine of node n has returned, or was never started
Finished(n) == gor[n].pc \in {"none", "done"}

\* C10: a relay that has returned has closed its channel after both child
\* channels were closed, both children finished and every point they sent was
\* sent on; the root's channel is closed, and Search has returned, only when
\* every goroutine of the query has finished.
C10_FanInOrder ==
    /\ \A n \in DOMAIN gor :
          (nodes[n].left # nil /\ gor[n].pc = "done")
              => /\ chans[n].state = "closed"
                 /\ chans[nodes[n].left].state = "closed"
                 /\ chans[nodes[n].right].state = "closed"
                 /\ Finished(nodes[n].left) /\ Finished(nodes[n].right)
                 /\ chans[n].sent = chans[nodes[n].left].sent + chans[nodes[n].right].sent
    /\ (DOMAIN gor # {} /\ chans[root].state = "closed")
          => \A n \in DOMAIN gor : Finished(n)
    /\ Returned => \A n \in DOMAIN gor : Finished(n) /\ gor[n].pc # "send"

\* a query over a tree of depth 2 has returned, an inner relay having passed on
\* points of both of its children
C10_Witness ==
    /\ Returned
    /\ \E n \in DOMAIN gor :
          /\ n # root
          /\ nodes[n].left # nil
          /\ gor[n].pc = "done"
          /\ chans[nodes[n].left].sent >= 1
          /\ chans[nodes[n].right].sent >= 1

\* the goroutine of the internal node n has passed lines 60-74
Entered(n) == nodes[n].left # nil /\ gor[n].pc \notin {"none", "start"}

\* no goroutine was started for c or below it, and none of them sent a point
Skipped(c) == \A d \in Subtree(nodes, c) : gor[d].pc = "none" /\ chans[d].sent = 0

\* C11: at an internal node the left child is searched iff split > box.min_dim
\* and the right child iff split < box.max_dim; for a child that is not
\* searched no goroutine runs in its subtree and no point comes out of it.
C11_PruningRule ==
    \A n \in DOMAIN gor :
        Entered(n)
            => LET nd == nodes[n]
                   goL == nd.split > call.arg[nd.dim + 1]
                   goR == nd.split < call.arg[nd.dim + 1 + k]
               IN  /\ (gor[nd.left].pc # "none") <=> goL
                   /\ (gor[nd.right].pc # "none") <=> goR
                   /\ ~goL => Skipped(nd.left)
                   /\ ~goR => Skipped(nd.right)

\* a query has returned in which a relay searched one child, which sent points,
\* and pruned the other, an internal node whose leaves hold points
C11_Witness ==
    /\ Returned
    /\ \E n \in DOMAIN gor :
          /\ Entered(n)
          /\ \E c, d \in {nodes[n].left, nodes[n].right} :
                /\ c # d
                /\ gor[c].pc = "none"
                /\ nodes[c].left # nil
                /\ Size(nodes, c) > 0
                /\ gor[d].pc = "done"
                /\ chans[d].sent >= 1

\* C12: after any sequence of Insert and Delete every node has the capacity the
\* tree was built with and every leaf holds at most that many points.
C12_LeafCapacity ==
    \A n \in DOMAIN nodes :
        /\ nodes[n].cap = Cap
        /\ Len(nodes[n].points) <= nodes[n].cap

\* a split has put every point of the full leaf into one child, which is full
C12_Witness ==
    /\ call.op = "Insert"
    /\ Len(nodes) > Len(call.pre)
    /\ \E n \in DOMAIN nodes :
          /\ nodes[n].left # nil
          /\ Len(nodes[nodes[n].right].points) = Cap
          /\ Len(nodes[nodes[n].left].points) = 0

\* the Insert made last found the leaf its point routes to full
SplitDone ==
    /\ call.op = "Insert"
    /\ call.err # PANIC
    /\ LET n == LeafOf(call.pre, root, call.arg)
       IN  Len(call.pre[n].points) = call.pre[n].cap

\* C13: when a full leaf is split, its two new children are leaves that hold
\* together exactly the points the leaf held, each as often as the leaf did,
\* the former leaf holds no point itself, and no other node changes.
C13_SplitPartition ==
    SplitDone
        => LET n == LeafOf(call.pre, root, call.arg)
               l == nodes[n].left
               r == nodes[n].right
           IN  /\ Len(nodes) = Len(call.pre) + 2
               /\ l = Len(call.pre) + 1 /\ r = Len(call.pre) + 2
               /\ nodes[l].left = nil /\ nodes[r].left = nil
               /\ nodes[n].points = <<>>
               /\ \A p \in Points :
                     Occurrences(nodes[l].points, p) + Occurrences(nodes[r].points, p)
                         = Occurrences(call.pre[n].points, p)
               /\ Len(nodes[l].points) + Len(nodes[r].points) = Len(call.pre[n].points)
               /\ \A m \in DOMAIN call.pre : m # n => nodes[m] = call.pre[m]

\* a leaf below the root was split and both of its children got points
C13_Witness ==
    /\ SplitDone
    /\ LET n == LeafOf(call.pre, root, call.arg)
       IN  /\ n # root
           /\ Len(nodes[nodes[n].left].points) >= 1
           /\ Len(nodes[nodes[n].right].points) >= 1

\* C14: whatever the schedule, the points a Search returns are, as a multiset,
\* the ones the tree and the box determine (so a repeated Search on the same
\* tree returns the same multiset), and the Search leaves the tree as it was.
C14_ScheduleIndependent ==
    /\ call.op = "Search" => nodes = call.pre
    /\ Returned
          => /\ \A p \in Points : Occurrences(found, p) = Sends(nodes, root, call.arg, p)
             /\ \A i \in 1..Len(found) : found[i] \in Points

\* a query has returned whose first point came from the root's right child and
\* whose second point came from its left child
C14_Witness ==
    /\ Returned
    /\ nodes[root].left # nil
    /\ Len(found) >= 2
    /\ Stored(nodes, nodes[root].left, found[1]) = 0
    /\ Stored(nodes, nodes[root].right, found[2]) = 0

\* (0,0), (1,1), (2,2), (3,3) and (4,4) were inserted in this order: the first
\* four filled the root in this order, the fifth split it
ScenarioDone ==
    /\ \A p \in ScenarioPoints : inserted[p] = 1
    /\ nodes[root].left # nil
    /\ \E n \in {nodes[root].left, nodes[root].right} :
          nodes[n].points = <<<<0, 0>>, <<1, 1>>, <<2, 2>>, <<3, 3>>>>

\* the Search returned exactly (0,0), (1,1) and (2,2), each once
ScenarioResult ==
    /\ Len(found) = 3
    /\ \A i \in 0..2 : Occurrences(found, <<i, i>>) = 1

\* C15 as stated: after the scenario's inserts Search([0,2,0,2]) returns exactly
\* (0,0), (1,1) and (2,2).
C15_Scenario ==
    (ScenarioDone /\ Returned /\ call.arg = <<0, 2, 0, 2>>) => ScenarioResult

\* C15 amended: after the scenario's inserts Search([0,0,2,2]), the square from
\* (0,0) to (2,2), returns exactly (0,0), (1,1) and (2,2).
C15_ScenarioSquare ==
    (ScenarioDone /\ Returned /\ call.arg = <<0, 0, 2, 2>>) => ScenarioResult

C15_Witness ==
    /\ ScenarioDone
    /\ Returned
    /\ call.arg = <<0, 0, 2, 2>>
    /\ ScenarioResult

\* C16: a Search with a box of length 2k on a tree that stores no point sends
\* no point, returns no point and reports no error.
C16_SearchEmptyTree ==
    (call.op = "Search" /\ Len(call.arg) = 2 * k /\ Size(nodes, root) = 0)
        => /\ call.err = Nil
           /\ found = <<>>
           /\ callerpc \in {"range", "idle"}
           /\ DOMAIN gor = DOMAIN nodes
           /\ \A n \in DOMAIN gor : gor[n].pc # "send" /\ chans[n].sent = 0

\* a query has returned from a tree of two levels all of whose points were
\* deleted, a leaf having been scanned
C16_Witness ==
    /\ Returned
    /\ Size(nodes, root) = 0
    /\ nodes[root].left # nil
    /\ \E n \in DOMAIN gor : nodes[n].left = nil /\ gor[n].pc = "done"

\* C17: after every sequence of Inserts into an empty red-black tree no nil
\* pointer was dereferenced, the root is black, no red node has a red child,
\* and all downward paths from a node to sentinel leaves hold the same number
\* of black nodes.
C17_RedBlack ==
    LET ns == rbtree.nodes IN
    /\ rbtree.err = Nil
    /\ ns[rbtree.root].color = black
    /\ \A n \in Inner(ns, rbtree.root) :
          /\ ns[n].color = red
                => ns[ns[n].left].color = black /\ ns[ns[n].right].color = black
          /\ Cardinality(BlackHeights(ns, n)) = 1
          /\ ns[n].left # nil /\ ns[n].right # nil /\ ns[n].p # nil

\* a tree of seven keys with a red node that has two black children that are
\* not sentinels
C17_Witness ==
    LET ns == rbtree.nodes IN
    /\ Cardinality(Inner(ns, rbtree.root)) = 7
    /\ \E n \in Inner(ns, rbtree.root) :
          /\ ns[n].color = red
          /\ ~isSentinel(ns, ns[n].left)
          /\ ~isSentinel(ns, ns[n].right)

\* the labels that the first n calls of ExtractMaximum returned
Extracted(n) == {heap.out[j][1] : j \in 1..n}

\* the values still in the heap after the first n calls of ExtractMaximum
Remaining(n) == {heap.input[l + 1] : l \in (0..(Len(heap.input) - 1)) \ Extracted(n)}

\* C18: every ExtractMaximum on a built heap returns the largest value still in
\* the heap with the label it was built with, the size goes down by one with
\* each call, and Maximum then reports the largest of the values that remain.
C18_ExtractMaximum ==
    heap.op \in {"BuildMaxHeap", "ExtractMaximum"}
        => /\ heap.size = Len(heap.input) - Len(heap.out)
           /\ \A n \in 1..Len(heap.out) :
                 LET l == heap.out[n][1]
                     v == heap.out[n][2]
                 IN  /\ l \in (0..(Len(heap.input) - 1)) \ Extracted(n - 1)
                     /\ v = heap.input[l + 1]
                     /\ \A w \in Remaining(n - 1) : w <= v
           /\ heap.size > 0
                 => /\ Maximum(heap)[3] = Nil
                    /\ \A w \in Remaining(Len(heap.out)) : w <= Maximum(heap)[2]

\* C19: Delete(index) with 0 <= index < Length() takes exactly the node at
\* that position out of the list, returns its value and makes Length() one
\* less; with any other index, or on an empty list, it returns an error and
\* leaves the list as it was.
C19_ListDelete ==
    list.op = "Delete"
        => LET c == Chain(list.pre)
               i == list.arg
           IN  IF 0 <= i /\ i < list.pre.length
               THEN /\ list.err = Nil
                    /\ i < Len(c)
                    /\ list.ret = list.pre.nodes[c[i + 1]].Value
                    /\ Chain(list) = RemoveAt(c, i)
                    /\ list.length = list.pre.length - 1
               ELSE /\ list.err # Nil
                    /\ Before(list) = list.pre

\* C20: MergeSort returns, for every input and without a slice access out of
\* range, the input's values, each as often as the input holds it, in
\* non-decreasing order.
C20_MergeSort ==
    sorted.op = "MergeSort"
        => /\ sorted.err = Nil
           /\ Len(sorted.out) = Len(sorted.input)
           /\ \A v \in 0..MaxSortValue :
                 Occurrences(sorted.out, v) = Occurrences(sorted.input, v)
           /\ \A i \in 1..(Len(sorted.out) - 1) : sorted.out[i] <= sorted.out[i + 1]

\* C21: after a Delete(key) that returns no error Get(key) returns the
\* key-not-found error, and a Delete of a key that no pair of the table has
\* returns the key-not-found error.
C21_TableDelete ==
    table.op = "Delete"
        => /\ table.err = Nil => htGet(table, table.arg).err = KEY_ERROR
           /\ Pairs(table.pre, table.Size, table.arg) = 0 => table.err = KEY_ERROR

\* C22: for every internal node, every point stored in its left subtree is
\* below the split on the node's dim and every point stored in its right
\* subtree is at or above it.
C22_Routing ==
    \A n \in DOMAIN nodes :
        nodes[n].left # nil
            => /\ \A p \in PointsBelow(nodes, nodes[n].left) :
                     p[nodes[n].dim + 1] < nodes[n].split
               /\ \A p \in PointsBelow(nodes, nodes[n].right) :
                     p[nodes[n].dim + 1] >= nodes[n].split

\* a tree of depth 2 with points on both sides of the root, a point equal to
\* the root's split among them
C22_Witness ==
    /\ nodes[root].left # nil
    /\ PointsBelow(nodes, nodes[root].left) # {}
    /\ \E p \in PointsBelow(nodes, nodes[root].right) : p[nodes[root].dim + 1] = nodes[root].split
    /\ \E n \in DOMAIN nodes : n # root /\ nodes[n].left # nil /\ Size(nodes, n) > 0

\* C23: every node of the tree has the capacity of the root and, at depth d,
\* dim = d mod k (the root 0, a child its parent's dim + 1 mod k), so that
\* 0 <= dim < k; and no call changes the dim of a node.
C23_DimCycle ==
    /\ \A n \in DOMAIN nodes :
          /\ nodes[n].dim = DepthBelow(nodes, root, n) % k
          /\ 0 <= nodes[n].dim /\ nodes[n].dim < k
          /\ nodes[n].cap = nodes[root].cap
    /\ \A n \in DOMAIN call.pre : nodes[n].dim = call.pre[n].dim

\* C24: every node is a leaf, without children, or internal, with two children
\* and no point of its own; and a node that was internal before a call is
\* internal after it, with the same children.
C24_NodeShape ==
    /\ \A n \in DOMAIN nodes :
          \/ nodes[n].left = nil /\ nodes[n].right = nil
          \/ nodes[n].left # nil /\ nodes[n].right # nil /\ nodes[n].points = <<>>
    /\ \A n \in DOMAIN call.pre :
          call.pre[n].left # nil
              => /\ nodes[n].left = call.pre[n].left
                 /\ nodes[n].right = call.pre[n].right

\* an Insert into a tree whose root was internal has split a leaf below it
C24_Witness ==
    /\ call.op = "Insert"
    /\ Len(nodes) > Len(call.pre)
    /\ call.pre[root].left # nil
    /\ \E n \in DOMAIN nodes : n # root /\ nodes[n].left # nil

\* the leaf that Delete's argument routed to held a point equal to it
DeleteHit ==
    /\ call.op = "Delete"
    /\ Occurrences(call.pre[LeafOf(call.pre, root, call.arg)].points, call.arg) >= 1

\* C25: a Delete(p) that finds a match takes the first point equal to p out of
\* the leaf p routes to, keeps the order of the leaf's other points, and
\* changes no other field of any node; the set of nodes stays as it was.
C25_DeleteFrame ==
    DeleteHit
        => LET n == LeafOf(call.pre, root, call.arg)
               pts == call.pre[n].points
               i == CHOOSE j \in 1..Len(pts) :
                       pts[j] = call.arg /\ \A j2 \in 1..(j - 1) : pts[j2] # call.arg
           IN  /\ call.err = Nil
               /\ nodes = [call.pre EXCEPT
                              ![n].points = SubSeq(pts, 1, i - 1) \o SubSeq(pts, i + 1, Len(pts))]

\* the first of three points of a leaf below the root, with a second copy of
\* it last, was deleted
C25_Witness ==
    /\ DeleteHit
    /\ LET n == LeafOf(call.pre, root, call.arg)
       IN  /\ n # root
           /\ Len(call.pre[n].points) = 3
           /\ call.pre[n].points[1] = call.arg
           /\ call.pre[n].points[2] # call.arg
           /\ call.pre[n].points[3] = call.arg

\* C26: no call returns the EMPTYNODE error: a leaf that is full, which is
\* the only leaf a split is attempted on, holds at least one point.
C26_NoEmptyNode ==
    /\ call.err # EMPTYNODE
    /\ \A n \in DOMAIN nodes :
          (nodes[n].left = nil /\ Len(nodes[n].points) = nodes[n].cap)
              => Len(nodes[n].points) > 0

\* an Insert found the leaf its point routes to, a leaf below the root, empty
C26_Witness ==
    /\ call.op = "Insert"
    /\ call.err = Nil
    /\ Len(call.arg) = k
    /\ LET n == LeafOf(call.pre, root, call.arg)
       IN  n # root /\ call.pre[n].points = <<>> /\ nodes[n].points = <<call.arg>>

\* the middle of three values: at least two of them are at most it and at
\* least two are at least it
Middle(a, b, c) ==
    LET t == <<a, b, c>> IN
    CHOOSE m \in {a, b, c} :
        /\ Cardinality({i \in 1..3 : t[i] <= m}) >= 2
        /\ Cardinality({i \in 1..3 : t[i] >= m}) >= 2

\* the last call was an Insert that split a leaf
SplitHappened == call.op = "Insert" /\ Len(nodes) > Len(call.pre)

\* the coordinates, on the node's dim, of the points of the leaf that was split
SplitVals ==
    LET n == LeafOf(call.pre, root, call.arg)
        pts == call.pre[n].points
    IN  [i \in 1..Len(pts) |-> pts[i][call.pre[n].dim + 1]]

\* C27: the threshold a split stores is the middle of the three middles of
\* the triples of the samples vals[j * floor(n / 9)], j = 0..8, of the n >= 1
\* coordinates of the leaf's points on the node's dim; every sampled index is
\* below n; and for n < 9 the threshold is vals[0].
C27_Ninther ==
    SplitHappened
        => LET vals == SplitVals
               n == Len(vals)
               th == n \div 9
               s == [j \in 0..8 |-> vals[j * th + 1]]
           IN  /\ n >= 1
               /\ \A j \in 0..8 : j * th <= n - 1
               /\ nodes[LeafOf(call.pre, root, call.arg)].split
                      = Middle(Middle(s[0], s[1], s[2]),
                               Middle(s[3], s[4], s[5]),
                               Middle(s[6], s[7], s[8]))
               /\ n < 9 => nodes[LeafOf(call.pre, root, call.arg)].split = vals[1]

\* a leaf of nine points was split at a threshold that is neither its first
\* nor its last sample
C27_Witness ==
    /\ SplitHappened
    /\ Len(SplitVals) = 9
    /\ nodes[root].split # SplitVals[1]
    /\ nodes[root].split # SplitVals[9]

\* child c of a relay is blocked sending a point
Offers(c) == c # nil /\ gor[c].pc = "send"

\* C28: a relay waiting in its select can take the point a child offers,
\* whatever the other child does, and then holds that point to send it on:
\* it never waits for one child while the other offers a point.  A relay that
\* saw one child's channel closed is still in its loop, no longer receives from
\* that child and serves the other.
C28_Streaming ==
    \A n \in DOMAIN gor :
        /\ (gor[n].pc = "select" /\ Offers(gor[n].cleft))
              => ENABLED (/\ RecvLeft(n)
                          /\ gor'[n].pc = "send"
                          /\ gor'[n].pt = gor[gor[n].cleft].pt)
        /\ (gor[n].pc = "select" /\ Offers(gor[n].cright))
              => ENABLED (/\ RecvRight(n)
                          /\ gor'[n].pc = "send"
                          /\ gor'[n].pt = gor[gor[n].cright].pt)
        /\ (nodes[n].left # nil /\ gor[n].cleft = nil /\ gor[n].cright # nil)
              => /\ gor[n].pc \in {"select", "send"}
                 /\ chans[nodes[n].left].state = "closed"
                 /\ ~ENABLED RecvLeft(n)
        /\ (nodes[n].left # nil /\ gor[n].cright = nil /\ gor[n].cleft # nil)
              => /\ gor[n].pc \in {"select", "send"}
                 /\ chans[nodes[n].right].state = "closed"
                 /\ ~ENABLED RecvRight(n)

\* a relay holds a point it received from its right child, while its left
\* child, which is searched, has neither sent a point nor closed its channel
C28_Witness ==
    \E n \in DOMAIN gor :
        /\ gor[n].pc = "send"
        /\ gor[n].cleft # nil /\ gor[n].cright # nil
        /\ chans[gor[n].cright].sent = 1
        /\ chans[gor[n].cleft] = OpenChan
        /\ gor[gor[n].cleft].pc \in {"start", "send"}

\* C29: Insert(p) followed by Delete(p) leaves the multiset of stored points
\* as it was before the Insert, also when p was stored already and when the
\* Insert found its leaf full.
C29_RoundTrip ==
    call.op = "Insert"
        => LET after == delete(nodes, root, call.arg)
           IN  \A q \in Points :
                   Stored(after.nodes, root, q) = Stored(call.pre, root, q)

\* p lies in the box read as [min_0..min_{k-1}, max_0..max_{k-1}]
Inside(p, box) == \A i \in 1..k : box[i] <= p[i] /\ p[i] <= box[k + i]

\* C30: at every moment of a Search with a box of length 2k, the points
\* received so far are stored points inside the box, none more often than it
\* is stored; a box with a lower bound above its upper bound yields no point.
C30_SearchSound ==
    (call.op = "Search" /\ Len(call.arg) = 2 * k)
        => /\ \A i \in 1..Len(found) : found[i] \in Points /\ Inside(found[i], call.arg)
           /\ \A p \in Points : Occurrences(found, p) <= Stored(nodes, root, p)
           /\ (\E i \in 1..k : call.arg[i] > call.arg[k + i]) => found = <<>>

\* a Search of a split tree returned a point stored twice, twice, and left
\* out a stored point outside the box
C30_Witness ==
    /\ Returned
    /\ nodes[root].left # nil
    /\ \E p \in Points : Occurrences(found, p) = 2
    /\ \E p \in Points : Stored(nodes, root, p) > 0 /\ ~Inside(p, call.arg)

\* the internal node of which c is a child, in a tree where c is not the root
ParentOf(c) == CHOOSE n \in DOMAIN nodes : nodes[n].left = c \/ nodes[n].right = c

\* C31: during and after a Search no goroutine panics on a channel: a channel
\* is closed by the goroutine that sends on it, when it is done, or, if it is
\* pruned, by the parent that made it, and by no other; a goroutine blocked in
\* a send has its channel open; and when Search has returned, the root's
\* channel and both child channels of every visited internal node are closed.
C31_ChannelDiscipline ==
    call.op = "Search"
        => /\ call.err # PANIC
           /\ \A n \in DOMAIN gor :
                 /\ gor[n].pc \in {"start", "select", "send", "close"}
                       => chans[n].state = "open"
                 /\ gor[n].pc = "done" => chans[n].state = "closed"
                 /\ (gor[n].pc = "none" /\ chans[n].state # "none")
                       => /\ n # root
                          /\ chans[n] = Pruned
                          /\ gor[ParentOf(n)].pc \notin {"none", "start"}
           /\ Returned
                 => /\ chans[root].state = "closed"
                    /\ \A n \in DOMAIN gor :
                          (gor[n].pc # "none" /\ nodes[n].left # nil)
                              => /\ chans[nodes[n].left].state = "closed"
                                 /\ chans[nodes[n].right].state = "closed"

\* a Search of a tree of depth 2 has returned a point, with a channel closed
\* as pruned and a channel closed by its own sub-search below one relay
C31_Witness ==
    /\ Returned
    /\ found # <<>>
    /\ \E n \in DOMAIN gor :
          /\ n # root
          /\ nodes[n].left # nil
          /\ gor[n].pc = "done"
          /\ {gor[nodes[n].left].pc, gor[nodes[n].right].pc} = {"none", "done"}

\* C32: from the call of Search on, through every step of its goroutines and
\* after its return, with a result or with DIMENSION_ERROR, the tree is the
\* tree the call found: no node's dim, split, children, points or cap differs,
\* no node was added, and k is as it was.
C32_SearchReadOnly ==
    call.op = "Search" => (nodes = call.pre /\ k = K)

\* a Search of a split tree has returned points, all sub-searches done
C32_Witness ==
    /\ Returned
    /\ Len(nodes) > 1
    /\ Len(found) = Size(nodes, root)
    /\ Len(found) >= 2
    /\ \A n \in DOMAIN gor : gor[n].pc = "done"

\* C33: the threshold a split stores is the coordinate, on the node's dim, of
\* one of the points of the leaf that was split, and right after the split
\* the right child holds at least one point (the children hold all the
\* leaf's points between them).
C33_SplitIsSample ==
    SplitHappened
        => LET n == LeafOf(call.pre, root, call.arg)
               vals == SplitVals
           IN  /\ \E i \in 1..Len(vals) : nodes[n].split = vals[i]
               /\ Len(nodes[nodes[n].right].points) >= 1
               /\ Len(nodes[nodes[n].left].points) + Len(nodes[nodes[n].right].points)
                      = Len(vals)

\* a leaf of ten points with three different coordinates was split, points
\* going to both children
C33_Witness ==
    /\ SplitHappened
    /\ Len(SplitVals) = 10
    /\ {SplitVals[i] : i \in 1..10} = {0, 1, 2}
    /\ nodes[nodes[root].left].points # <<>>
    /\ nodes[nodes[root].right].points # <<>>

====
